---- MODULE Spec2Model ----
(***************************************************************************)
(* Authentication, session and role-authorization layer of the Express    *)
(* server: POST /signup, POST /login, GET /logout and the role-protected  *)
(* GET routes, over the users table and the express-session store.        *)
(*                                                                         *)
(* A request occupies a slot from its arrival to the end of its response. *)
(* Each action is one synchronous segment of a handler between two         *)
(* awaits/callbacks, so the interleavings of the actions are the           *)
(* interleavings Node's event loop allows.                                 *)
(*                                                                         *)
(* Text fields are sequences of one-character strings so that trim(),      *)
(* isEmail(), isLength() and the hash are computed, not assumed.           *)
(***************************************************************************)
EXTENDS Integers, Sequences, FiniteSets, TLC

\* ------------------------------------------------------------- bounds
MaxInFlight == 2   \* requests in flight at once
MaxTicks == 2      \* clock advances
MaxRequests == 3   \* requests the clients send in all
TickHours == 12    \* hours per clock advance

\* cookie.maxAge: 24 * 60 * 60 * 1000 ms, counted in hours
MaxAgeHours == 24

\* requests the clients send in all in the session scenarios (SpecSessions)
MaxSessionRequests == 4
\* requests of the redirection scenarios: login, / and /server-room, twice
MaxRedirectRequests == 6
\* failed probes of the connection test the database is let to cause
MaxProbeFailures == 4

\* setTimeout(connectWithRetry, 5000), in seconds
RetryDelaySeconds == 5
\* connectionTimeoutMillis: 5000, in seconds
ConnectionTimeoutSeconds == 5

VARIABLES
    users,      \* the users table: sequence of rows, row i has id i
    sessions,   \* express-session MemoryStore: sid -> [user, expires]
    nextSid,    \* next session id the store generates (ids are never reused)
    now,        \* wall clock, in hours
    slots,      \* the requests in flight
    started,    \* number of requests received so far
    loggedOut,  \* history: the tokens for which a GET /logout has completed
    born,       \* history: sid -> when its session was created, for which
                \* user, and the role that user had then
    redirected, \* history: the redirections clients were sent, each with
                \* the cookie the client holds when it follows it
    load,       \* the load of the entry script: position, environment, routes
    probe       \* the connection test of the pool module, its timers, the
                \* database it probes and the clock in seconds

vars ==
    <<users, sessions, nextSid, now, slots, started, loggedOut, born, redirected,
      load, probe>>

Slots == 1..MaxInFlight

\* ------------------------------------------------------------- text
Chars(s) == {s[i] : i \in 1..Len(s)}

RECURSIVE TrimLeft(_)
TrimLeft(s) == IF s # <<>> /\ Head(s) = " " THEN TrimLeft(Tail(s)) ELSE s

RECURSIVE TrimRight(_)
TrimRight(s) ==
    IF s # <<>> /\ s[Len(s)] = " " THEN TrimRight(SubSeq(s, 1, Len(s) - 1)) ELSE s

\* express-validator .trim()
Trim(s) == TrimRight(TrimLeft(s))

\* express-validator .notEmpty()
NotEmpty(s) == Len(s) > 0

\* express-validator .isEmail(): local@domain, one "@", no blanks, a dot
\* inside the domain with a label on each side
IsEmail(s) ==
    /\ " " \notin Chars(s)
    /\ Cardinality({i \in 1..Len(s) : s[i] = "@"}) = 1
    /\ \E i \in 2..Len(s) :
          /\ s[i] = "@"
          /\ \E j \in (i + 2)..(Len(s) - 1) : s[j] = "."
          /\ s[i + 1] # "."
          /\ s[Len(s)] # "."

IsLengthMin1(s) == Len(s) >= 1

\* express-validator .isLength({ min: 6 })
IsLengthMin6(s) == Len(s) >= 6

Roles == {"admin", "user"}

IsInRolesAny(r) == TRUE

\* express-validator .isIn(['admin', 'user'])
IsInRoles(r) == r \in Roles

\* ------------------------------------------------------------- bcrypt
\* bcrypt.hash(password, 10): a self-describing token, never the plaintext
Hash(p) == <<"$", "2", "b", "$">> \o p

CompareAlways(p, h) == TRUE

\* bcrypt.compare(password, hash)
Compare(p, h) == h = Hash(p)

\* ------------------------------------------------------------- inputs
EmailA == <<"a", "@", "x", ".", "c", "o", "m">>
EmailB == <<"b", "@", "x", ".", "c", "o", "m">>
\* EmailA as a client may type it: the same address in another letter case
EmailAUpper == <<"A", "@", "x", ".", "c", "o", "m">>
Secret1 == <<"s", "e", "c", "r", "e", "t", "1">>
Wrong == <<"w", "r", "o", "n", "g">>

BodyA ==
    [name |-> <<"A">>, email |-> EmailA, username |-> <<"a">>,
     password |-> Secret1, role |-> "user"]
BodyB ==
    [name |-> <<"B">>, email |-> EmailA, username |-> <<"b">>,
     password |-> Secret1, role |-> "user"]
BodyC ==
    [name |-> <<"C">>, email |-> EmailB, username |-> <<" ", "a">>,
     password |-> Secret1, role |-> "admin"]
BodyBad ==
    [name |-> <<" ">>, email |-> <<"a", "@", "x">>, username |-> <<>>,
     password |-> Wrong, role |-> "root"]

\* BodyA and BodyB share the email, BodyA and BodyC the username once trimmed
SignupBodies == {BodyA, BodyB, BodyC, BodyBad}

\* bodies that vary one field at a time between a valid and an invalid value
FieldBodies ==
    [name : {<<"A">>, <<" ">>}, email : {EmailA, <<"a", "@", "x">>},
     username : {<<"a">>, <<" ", " ">>}, password : {Secret1, Wrong},
     role : {"user", "admin", "root"}]

LoginBodies ==
    { [email |-> EmailA, password |-> Secret1], [email |-> EmailA, password |-> Wrong],
      [email |-> EmailB, password |-> Secret1], [email |-> EmailA, password |-> <<>>],
      [email |-> <<>>, password |-> Secret1], [email |-> EmailAUpper, password |-> Secret1] }

NoToken == 0
Forged == -1

\* session ids already sent to a client in a Set-Cookie header
Delivered ==
    {x \in 1..(nextSid - 1) : \A s \in Slots : ~(slots[s].kind = "login" /\ slots[s].sid = x)}

\* the cookies a client can present: none, one the server never issued,
\* or any session id a client was given (live, destroyed or expired)
Tokens == {NoToken, Forged} \cup Delivered

ProtectedPaths == {"/admin-dashboard", "/user-profile", "/dashboard", "/server-room"}

\* ------------------------------------------------------------- records
NoUser == [id |-> 0]
NoBody == [email |-> <<>>, password |-> <<>>]
NoResp == [none |-> TRUE]
NoErr == [message |-> ""]

Idle ==
    [kind |-> "idle", path |-> "", body |-> NoBody, tok |-> NoToken, pc |-> "idle",
     sid |-> 0, sessUser |-> 0, user |-> NoUser, found |-> NoUser, status |-> 0, resp |-> NoResp,
     hash |-> <<>>, err |-> NoErr, trace |-> <<>>, late |-> FALSE,
     sent |-> 0, seen |-> "unasked", gone |-> {}]

UserSet == {users[i] : i \in 1..Len(users)}

\* ------------------------------------------------------------- users table
\* SELECT * FROM users WHERE email = $1
SelectByEmail(e) == SelectSeq(users, LAMBDA u : u.email = e)

\* SELECT * FROM users WHERE username = $1
SelectByUsername(n) == SelectSeq(users, LAMBDA u : u.username = n)

\* SELECT * FROM users WHERE id = $1
SelectById(id) == SelectSeq(users, LAMBDA u : u.id = id)

UniqueViolationNever(row) == FALSE

\* the table's unique constraints on email and on username, enforced
\* atomically by the store at INSERT
UniqueViolation(row) ==
    \E u \in UserSet : u.email = row.email \/ u.username = row.username

InsertRowSameId(row) ==
    [id |-> 1, name |-> row.name, email |-> row.email,
     username |-> row.username, password |-> row.password, role |-> row.role]

\* INSERT ... RETURNING *: the store assigns the id
InsertRow(row) ==
    [id |-> Len(users) + 1, name |-> row.name, email |-> row.email,
     username |-> row.username, password |-> row.password, role |-> row.role]

DeletePasswordKept(u) == u

\* delete user.password
DeletePassword(u) == [f \in DOMAIN u \ {"password"} |-> u[f]]

\* ------------------------------------------------------------- errors
ConflictErrorUnnamed(msg) == [statusCode |-> 409, message |-> "Conflict"]

\* class ConflictError extends AppError: statusCode 409
ConflictError(msg) == [statusCode |-> 409, message |-> msg]

\* class BadRequestError extends AppError: statusCode 400
BadRequestError(msg) == [statusCode |-> 400, message |-> msg]

\* errors raised by the pg driver carry no statusCode
DbDown == [message |-> "connect ECONNREFUSED"]
UniqueViolationError ==
    [message |-> "duplicate key value violates unique constraint", code |-> "23505"]

\* bcrypt rejects with a plain Error: no statusCode either
HashDown == [message |-> "bcrypt: data and hash arguments required"]

\* passport: no deserializer produced a user
DeserializeError == [message |-> "Failed to deserialize user out of session"]

ErrorHandlerUnauthorized(err) ==
    [status |-> 401, resp |-> [message |-> "Incorrect email or password."]]

\* the centralized error handler: err.statusCode || 500, err.message || ...
ErrorHandler(err) ==
    [status |-> IF "statusCode" \in DOMAIN err THEN err.statusCode ELSE 500,
     resp |-> [error |-> IF err.message # "" THEN err.message
                          ELSE "Internal Server Error"]]

\* next(err): the request ends in the centralized error handler
Fail(r, err, step) ==
    [r EXCEPT !.pc = "done", !.err = err, !.status = ErrorHandler(err).status,
              !.resp = ErrorHandler(err).resp, !.trace = Append(@, step),
              !.sent = @ + 1]

\* res.status(status).json(resp)
Respond(r, status, resp, step) ==
    [r EXCEPT !.pc = "done", !.status = status, !.resp = resp,
              !.trace = Append(@, step), !.sent = @ + 1]

\* ------------------------------------------------------------- POST /signup
\* the sanitizers of the validation chain rewrite req.body
Sanitize(b) ==
    [b EXCEPT !.name = Trim(@), !.email = Trim(@), !.username = Trim(@)]

\* validationResult(req).array(), in the order of the chain
ValidationErrors(b) ==
    (IF NotEmpty(b.name) THEN <<>> ELSE <<[path |-> "name", msg |-> "Name is required"]>>)
    \o (IF IsEmail(b.email) THEN <<>>
        ELSE <<[path |-> "email", msg |-> "Invalid email address"]>>)
    \o (IF NotEmpty(b.username) THEN <<>>
        ELSE <<[path |-> "username", msg |-> "Username is required"]>>)
    \o (IF IsLengthMin6(b.password) THEN <<>>
        ELSE <<[path |-> "password",
                msg |-> "Password must be at least 6 characters long"]>>)
    \o (IF IsInRoles(b.role) THEN <<>>
        ELSE <<[path |-> "role", msg |-> "Role must be either \"admin\" or \"user\""]>>)

\* a request is accepted into the lowest free slot
Free(s) ==
    /\ started < MaxRequests
    /\ slots[s] = Idle
    /\ \A x \in Slots : x < s => slots[x] # Idle

\* request arrival, validation chain and the handler up to its first await
StartSignup(s, b) ==
    /\ Free(s)
    /\ LET sb == Sanitize(b)
           errs == ValidationErrors(sb)
           r == [Idle EXCEPT !.kind = "signup", !.path = "/signup", !.body = sb]
       IN slots' = [slots EXCEPT ![s] =
              IF errs # <<>> THEN Respond(r, 400, [errors |-> errs], "validate")
              ELSE [r EXCEPT !.pc = "emailCheck", !.trace = <<"validate">>]]
    /\ started' = started + 1
    /\ UNCHANGED <<users, sessions, nextSid, now, loggedOut, born, redirected,
                 load, probe>>

EmailTakenTwice(r) == Len(SelectByEmail(r.body.email)) > 1

\* if (emailCheck.rows.length > 0)
EmailTaken(r) == Len(SelectByEmail(r.body.email)) > 0

\* if (usernameCheck.rows.length > 0)
UsernameTaken(r) == Len(SelectByUsername(r.body.username)) > 0

\* const emailCheck = await serverPool.query(...)
SignupEmailCheck(s) ==
    /\ slots[s].kind = "signup" /\ slots[s].pc = "emailCheck"
    /\ \E dbOk \in BOOLEAN :
         slots' = [slots EXCEPT ![s] =
            IF ~dbOk THEN Fail(@, DbDown, "emailCheck")
            ELSE IF EmailTaken(@)
                 THEN Fail([@ EXCEPT !.seen = "registered"],
                           ConflictError("Email already exists"), "emailCheck")
                 ELSE [@ EXCEPT !.pc = "usernameCheck", !.seen = "absent",
                                !.trace = Append(@, "emailCheck")]]
    /\ UNCHANGED <<users, sessions, nextSid, now, started, loggedOut, born,
                 redirected, load, probe>>

\* const usernameCheck = await serverPool.query(...)
SignupUsernameCheck(s) ==
    /\ slots[s].kind = "signup" /\ slots[s].pc = "usernameCheck"
    /\ \E dbOk \in BOOLEAN :
         slots' = [slots EXCEPT ![s] =
            IF ~dbOk THEN Fail(@, DbDown, "usernameCheck")
            ELSE IF UsernameTaken(@)
                 THEN Fail(@, ConflictError("Username already exists"), "usernameCheck")
                 ELSE [@ EXCEPT !.pc = "hash", !.trace = Append(@, "usernameCheck")]]
    /\ UNCHANGED <<users, sessions, nextSid, now, started, loggedOut, born,
                 redirected, load, probe>>

\* const hashedPassword = await bcrypt.hash(password, saltRounds)
SignupHash(s) ==
    /\ slots[s].kind = "signup" /\ slots[s].pc = "hash"
    /\ slots' = [slots EXCEPT ![s] =
          [@ EXCEPT !.pc = "insert", !.hash = Hash(slots[s].body.password),
                    !.trace = Append(@, "hash")]]
    /\ UNCHANGED <<users, sessions, nextSid, now, started, loggedOut, born,
                 redirected, load, probe>>

\* const newUser = await serverPool.query('INSERT ...'); delete user.password;
\* res.status(201).json(...)
SignupInsert(s) ==
    /\ slots[s].kind = "signup" /\ slots[s].pc = "insert"
    /\ LET r == slots[s]
           row == InsertRow([r.body EXCEPT !.password = r.hash])
       IN \E dbOk \in BOOLEAN :
            IF ~dbOk
            THEN /\ slots' = [slots EXCEPT ![s] = Fail(r, DbDown, "insert")]
                 /\ users' = users
            ELSE IF UniqueViolation(row)
            THEN /\ slots' = [slots EXCEPT ![s] = Fail(r, UniqueViolationError, "insert")]
                 /\ users' = users
            ELSE /\ users' = Append(users, row)
                 /\ slots' = [slots EXCEPT ![s] =
                       Respond(r, 201, [message |-> "User registered successfully",
                                        user |-> DeletePassword(row)], "insert")]
    /\ UNCHANGED <<sessions, nextSid, now, started, loggedOut, born,
                 redirected, load, probe>>


\* ------------------------------------------------------------- session store
Remove(store, sid) == [x \in DOMAIN store \ {sid} |-> store[x]]

Put(store, sid, rec) ==
    [x \in DOMAIN store \cup {sid} |-> IF x = sid THEN rec ELSE store[x]]

\* MemoryStore.getSession: a record whose cookie.expires <= Date.now() is expired
Live(sid) == sid \in DOMAIN sessions /\ sessions[sid].expires > now

\* MemoryStore.getSession deletes an expired record as it reads it
SessionsAfterRead(tok) ==
    IF tok \in DOMAIN sessions /\ ~Live(tok) THEN Remove(sessions, tok) ELSE sessions

SerializeUserFirst(user) == 1

\* passport.serializeUser((user, done) => done(null, user.id))
SerializeUser(user) == user.id

\* req.isAuthenticated(): a user is attached to the request
IsAuthenticated(r) == r.user.id # 0

\* ------------------------------------------------------------- gates
Pass == [next |-> TRUE, status |-> 0, resp |-> NoResp]

Deny(status, msg) == [next |-> FALSE, status |-> status, resp |-> [message |-> msg]]

EnsureAuthenticatedOpen(r) == Pass

\* authMiddleware.ensureAuthenticated
EnsureAuthenticated(r) ==
    IF IsAuthenticated(r) THEN Pass ELSE Deny(401, "Unauthorized")

EnsureAdminAnyRole(r) ==
    IF IsAuthenticated(r) THEN Pass ELSE Deny(403, "Forbidden: Admin access required")

\* roleMiddleware.ensureAdmin
EnsureAdmin(r) ==
    IF IsAuthenticated(r) /\ r.user.role = "admin" THEN Pass
    ELSE Deny(403, "Forbidden: Admin access required")

EnsureUserOrAdmin(r) ==
    IF IsAuthenticated(r) /\ (r.user.role = "admin" \/ r.user.role = "user") THEN Pass
    ELSE Deny(403, "Forbidden: User access required")

\* roleMiddleware.ensureUser
EnsureUser(r) ==
    IF IsAuthenticated(r) /\ r.user.role = "user" THEN Pass
    ELSE Deny(403, "Forbidden: User access required")

EnsureAdminOrUserAdminOnly(r) ==
    IF IsAuthenticated(r) /\ r.user.role = "admin" THEN Pass
    ELSE Deny(403, "Forbidden: Access denied")

\* roleMiddleware.ensureAdminOrUser
EnsureAdminOrUser(r) ==
    IF IsAuthenticated(r) /\ (r.user.role = "admin" \/ r.user.role = "user") THEN Pass
    ELSE Deny(403, "Forbidden: Access denied")

Ok(resp) == [next |-> FALSE, status |-> 200, resp |-> resp]

HomeToDashboard(r) == [next |-> FALSE, status |-> 302, resp |-> [location |-> "/dashboard"]]

\* app.get('/'): res.redirect('/server-room')
Home(r) == [next |-> FALSE, status |-> 302, resp |-> [location |-> "/server-room"]]

\* the route handlers behind the gates
Handler(r) ==
    CASE r.path = "/admin-dashboard" ->
           Ok([message |-> "Welcome to the Admin Dashboard", user |-> r.user])
      [] r.path = "/user-profile" ->
           Ok([message |-> "Welcome to your Profile", user |-> r.user])
      [] r.path = "/dashboard" ->
           Ok([message |-> "Welcome to the Dashboard", user |-> r.user])
      [] r.path = "/server-room" -> Ok([render |-> "pages/home"])

MiddlewareRoleFirst(path) ==
    CASE path = "/admin-dashboard" -> <<"ensureAdmin", "ensureAuthenticated", "handler">>
      [] path = "/user-profile" -> <<"ensureUser", "ensureAuthenticated", "handler">>
      [] path = "/dashboard" -> <<"ensureAdminOrUser", "ensureAuthenticated", "handler">>
      [] path = "/server-room" -> <<"ensureUser", "ensureAuthenticated", "handler">>
      [] path = "/" -> <<"home">>

\* router.get(path, ensureAuthenticated, <role gate>, handler)
Middleware(path) ==
    CASE path = "/admin-dashboard" -> <<"ensureAuthenticated", "ensureAdmin", "handler">>
      [] path = "/user-profile" -> <<"ensureAuthenticated", "ensureUser", "handler">>
      [] path = "/dashboard" -> <<"ensureAuthenticated", "ensureAdminOrUser", "handler">>
      [] path = "/server-room" -> <<"ensureAuthenticated", "ensureUser", "handler">>
      [] path = "/" -> <<"home">>

Apply(m, r) ==
    CASE m = "ensureAuthenticated" -> EnsureAuthenticated(r)
      [] m = "ensureAdmin" -> EnsureAdmin(r)
      [] m = "ensureUser" -> EnsureUser(r)
      [] m = "ensureAdminOrUser" -> EnsureAdminOrUser(r)
      [] m = "handler" -> Handler(r)
      [] m = "home" -> Home(r)

RECURSIVE RunChainThrough(_, _)
RunChainThrough(mws, r) ==
    LET m == Head(mws)
        out == Apply(m, r)
    IN IF Len(mws) > 1
       THEN RunChainThrough(Tail(mws),
               IF out.next THEN [r EXCEPT !.trace = Append(@, m)]
               ELSE Respond(r, out.status, out.resp, m))
       ELSE Respond(r, out.status, out.resp, m)

\* Express runs the middleware of a route in order; a middleware that does
\* not call next() ends the chain with its response
RECURSIVE RunChain(_, _)
RunChain(mws, r) ==
    LET m == Head(mws)
        out == Apply(m, r)
    IN IF out.next /\ Len(mws) > 1
       THEN RunChain(Tail(mws), [r EXCEPT !.trace = Append(@, m)])
       ELSE Respond(r, out.status, out.resp, m)

\* ------------------------------------------------------------- routes
LoginRequiredLax(r) == [r EXCEPT !.pc = "lookup", !.trace = Append(@, "required")]

\* POST /login up to passport.authenticate: if (!email || !password)
LoginRequired(r) ==
    IF r.body.email = <<>> \/ r.body.password = <<>>
    THEN Fail(r, BadRequestError("Email and password are required"), "required")
    ELSE [r EXCEPT !.pc = "lookup", !.trace = Append(@, "required")]

LogoutResponseStrict(r) ==
    IF r.user = NoUser
    THEN Respond(r, 401, [message |-> "Unauthorized"], "logout")
    ELSE Respond([r EXCEPT !.sid = 0, !.user = NoUser], 200,
                 [message |-> "Logout successful"], "logout")

\* GET /logout: res.json once req.logout has called back
LogoutResponse(r) ==
    Respond([r EXCEPT !.sid = 0, !.user = NoUser], 200,
            [message |-> "Logout successful"], "logout")

\* what runs synchronously once the session middleware and
\* passport.session() have handed the request to its route
Routed(r) ==
    CASE r.kind = "get" -> RunChain(Middleware(r.path), r)
      [] r.kind = "login" -> LoginRequired(r)
      [] r.kind = "logout" -> LogoutResponse(r)

SessionsAfterLogoutKept(store, r) == store

SessionsAfterLogoutEverywhere(store, r) ==
    [x \in {y \in DOMAIN store : store[y].user # r.user.id} |-> store[x]]

\* req.logout(cb): the user is removed from the session, the session is
\* saved and then regenerated, which destroys the record of req.sessionID
SessionsAfterLogout(store, r) == Remove(store, r.sid)

SessionsAfterRoute(store, r) ==
    IF r.kind = "logout" THEN SessionsAfterLogout(store, r) ELSE store

LoggedOutAfterRoute(r) ==
    IF r.kind = "logout" /\ r.tok \in 1..(nextSid - 1) THEN loggedOut \cup {r.tok}
    ELSE loggedOut

\* request arrival: the session middleware reads the cookie and the store
Arrive(kind, path, body, tok) ==
    [Idle EXCEPT !.kind = kind, !.path = path, !.body = body, !.tok = tok,
                 !.late = tok \in loggedOut, !.gone = loggedOut,
                 !.sid = IF Live(tok) THEN tok ELSE 0,
                 !.sessUser = IF Live(tok) THEN sessions[tok].user ELSE 0,
                 !.pc = "deserialize"]

\* a request with a live session waits for deserializeUser; any other is
\* handed to its route at once, with no user attached
Start(s, kind, path, body, tok) ==
    /\ Free(s)
    /\ LET r == Arrive(kind, path, body, tok) IN
          IF Live(tok)
          THEN /\ slots' = [slots EXCEPT ![s] = r]
               /\ sessions' = sessions
               /\ loggedOut' = loggedOut
          ELSE /\ slots' = [slots EXCEPT ![s] = Routed(r)]
               /\ sessions' = SessionsAfterRoute(SessionsAfterRead(tok), r)
               /\ loggedOut' = LoggedOutAfterRoute(r)
    /\ started' = started + 1
    /\ UNCHANGED <<users, nextSid, now, born, redirected, load, probe>>

StartLogin(s, b, tok) == Start(s, "login", "/login", b, tok)

StartLogout(s, tok) == Start(s, "logout", "/logout", NoBody, tok)

StartGet(s, path, tok) == Start(s, "get", path, NoBody, tok)

DeserializeUserAsAtLogin(r) ==
    LET rows == SelectById(r.sessUser) IN
    IF rows = <<>> THEN rows ELSE <<[rows[1] EXCEPT !.role = born[r.sid].role]>>

\* passport.deserializeUser: userQuery.rows of SELECT ... WHERE id = $1, for
\* the id the session holds
DeserializeUser(r) == SelectById(r.sessUser)

\* passport.session(): deserializeUser(id) re-fetches the row by id, then
\* the route runs with req.user attached
Deserialize(s) ==
    /\ slots[s].pc = "deserialize"
    /\ LET r == slots[s]
           rows == DeserializeUser(r)
       IN \E dbOk \in BOOLEAN :
            IF ~dbOk \/ rows = <<>>
            THEN /\ slots' = [slots EXCEPT ![s] =
                       Fail(r, IF ~dbOk THEN DbDown ELSE DeserializeError, "deserialize")]
                 /\ UNCHANGED <<sessions, loggedOut>>
            ELSE LET u == [r EXCEPT !.user = rows[1], !.trace = Append(@, "deserialize")]
                 IN /\ slots' = [slots EXCEPT ![s] = Routed(u)]
                    /\ sessions' = SessionsAfterRoute(sessions, u)
                    /\ loggedOut' = LoggedOutAfterRoute(u)
    /\ UNCHANGED <<users, nextSid, now, started, born, redirected, load, probe>>

\* ------------------------------------------------------------- POST /login
GenericFailure == [message |-> "Incorrect email or password."]

NoSuchUserInfoTelling == [message |-> "No user with that email."]

\* done(null, false, { message }) when no row matches the email
NoSuchUserInfo == GenericFailure

\* done(null, false, { message }) when bcrypt.compare is false
BadPasswordInfo == GenericFailure

\* the strategy's SELECT * FROM users WHERE email = $1
LoginLookup(s) ==
    /\ slots[s].kind = "login" /\ slots[s].pc = "lookup"
    /\ \E dbOk \in BOOLEAN :
         slots' = [slots EXCEPT ![s] =
            LET rows == SelectByEmail(@.body.email) IN
            IF ~dbOk THEN Fail(@, DbDown, "lookup")
            ELSE IF rows = <<>>
                 THEN Respond([@ EXCEPT !.seen = "absent"], 401, NoSuchUserInfo, "lookup")
            ELSE [@ EXCEPT !.found = rows[1], !.pc = "compare", !.seen = "registered",
                           !.trace = Append(@, "lookup")]]
    /\ UNCHANGED <<users, sessions, nextSid, now, started, loggedOut, born,
                 redirected, load, probe>>

\* req.logIn(user, cb): the session is regenerated (the request's previous
\* session record is destroyed, a fresh id is generated), the serialized
\* user is stored in it and it is saved; then res.redirect('/')
LogIn(r) ==
    Respond([r EXCEPT !.sid = nextSid, !.user = r.found, !.trace = Append(@, "compare")],
            302, [location |-> "/"], "logIn")

SessionsAfterLogIn(r) ==
    Put(Remove(sessions, r.sid), nextSid,
        [user |-> SerializeUser(r.found), expires |-> now + MaxAgeHours])

\* const isValidPassword = await bcrypt.compare(password, user.password),
\* then the authenticate callback
LoginCompare(s) ==
    /\ slots[s].kind = "login" /\ slots[s].pc = "compare"
    /\ LET r == slots[s] IN
        \E hashOk \in BOOLEAN :
          IF ~hashOk
          THEN /\ slots' = [slots EXCEPT ![s] = Fail(r, HashDown, "compare")]
               /\ UNCHANGED <<sessions, nextSid, born>>
          ELSE IF Compare(r.body.password, r.found.password)
          THEN /\ slots' = [slots EXCEPT ![s] = LogIn(r)]
               /\ sessions' = SessionsAfterLogIn(r)
               /\ born' = Put(born, nextSid,
                               [at |-> now, role |-> r.found.role, user |-> r.found.id])
               /\ nextSid' = nextSid + 1
          ELSE /\ slots' = [slots EXCEPT ![s] = Respond(r, 401, BadPasswordInfo, "compare")]
               /\ UNCHANGED <<sessions, nextSid, born>>
    /\ UNCHANGED <<users, now, started, loggedOut, redirected, load, probe>>

\* the redirections a client has been sent, after the response of r: a
\* 302 adds its Location, with the cookie the client then holds (the one
\* that logIn set, else the one it sent)
RedirectedAfter(r) ==
    IF r.status = 302
    THEN redirected \cup {[location |-> r.resp.location,
                           tok |-> IF r.kind = "login" THEN r.sid ELSE r.tok]}
    ELSE redirected

FinishResave(s) ==
    /\ slots[s].pc = "done"
    /\ redirected' = RedirectedAfter(slots[s])
    /\ sessions' = IF slots[s].sid # 0 /\ slots[s].user.id # 0
                   THEN Put(sessions, slots[s].sid,
                            [user |-> slots[s].user.id, expires |-> now + MaxAgeHours])
                   ELSE SessionsAfterRead(slots[s].sid)
    /\ slots' = [slots EXCEPT ![s] = Idle]
    /\ UNCHANGED <<users, nextSid, now, started, loggedOut, born, load, probe>>

\* ------------------------------------------------------------- response end
\* express-session's res.end hook: the session of the request, when its
\* record is still in the store and unexpired, gets a new expiry
\* (Session.touch, MemoryStore.touch)
Finish(s) ==
    /\ slots[s].pc = "done"
    /\ redirected' = RedirectedAfter(slots[s])
    /\ sessions' = IF Live(slots[s].sid)
                   THEN [sessions EXCEPT ![slots[s].sid].expires = now + MaxAgeHours]
                   ELSE SessionsAfterRead(slots[s].sid)
    /\ slots' = [slots EXCEPT ![s] = Idle]
    /\ UNCHANGED <<users, nextSid, now, started, loggedOut, born, load, probe>>

\* ------------------------------------------------------------- clock
\* a clock advance is hours long: no request is in flight across one
Tick ==
    /\ now < MaxTicks * TickHours
    /\ \A s \in Slots : slots[s] = Idle
    /\ now' = now + TickHours
    /\ UNCHANGED <<users, sessions, nextSid, slots, started, loggedOut, born,
                 redirected, load, probe>>

\* ------------------------------------------------------------- administration
\* the role column of a stored user is changed in the store, outside this
\* server and between its requests
ChangeRole(i, role) ==
    /\ i \in 1..Len(users) /\ users[i].role # role
    /\ \A s \in Slots : slots[s] = Idle
    /\ users' = [users EXCEPT ![i].role = role]
    /\ UNCHANGED <<sessions, nextSid, now, slots, started, loggedOut, born,
                 redirected, load, probe>>

\* what is left of a deleted row: ids are handed out by a sequence and are
\* not handed out again, so the place in the table stays taken
Deleted ==
    [id |-> 0, name |-> <<>>, email |-> <<>>, username |-> <<>>, password |-> <<>>,
     role |-> "user"]

\* a stored user is deleted in the store, outside this server and between
\* its requests
RemoveUser(i) ==
    /\ i \in 1..Len(users) /\ users[i] # Deleted
    /\ \A s \in Slots : slots[s] = Idle
    /\ users' = [users EXCEPT ![i] = Deleted]
    /\ UNCHANGED <<sessions, nextSid, now, slots, started, loggedOut, born,
                 redirected, load, probe>>

\* ------------------------------------------------------------- specification
\* the request-handling specifications take the routers as mounted and the
\* pool as connected: the load of the entry script and the connection test
\* have specifications of their own
NotLoading == [pc |-> "none"]
NotProbing == [pc |-> "none"]

\* the row a completed registration of body b leaves in the table
Registered(b, id) ==
    [id |-> id, name |-> Trim(b.name), email |-> Trim(b.email),
     username |-> Trim(b.username), password |-> Hash(b.password), role |-> b.role]

\* the users table outlives the server process: at start it holds what
\* earlier registrations left in it
InitTables ==
    { <<>>, <<Registered(BodyA, 1)>>, <<Registered(BodyB, 1), Registered(BodyC, 2)>> }

Init ==
    /\ users \in InitTables
    /\ sessions = [x \in {} |-> [user |-> 0, expires |-> 0]]
    /\ nextSid = 1
    /\ now = 0
    /\ slots = [s \in Slots |-> Idle]
    /\ started = 0
    /\ loggedOut = {}
    /\ born = [x \in {} |-> [at |-> 0, role |-> "user", user |-> 0]]
    /\ redirected = {}
    /\ load = NotLoading
    /\ probe = NotProbing

Next ==
    \/ \E s \in Slots, b \in SignupBodies : StartSignup(s, b)
    \/ \E s \in Slots : SignupEmailCheck(s)
    \/ \E s \in Slots : SignupUsernameCheck(s)
    \/ \E s \in Slots : SignupHash(s)
    \/ \E s \in Slots : SignupInsert(s)
    \/ \E s \in Slots, b \in LoginBodies, tok \in Tokens \ {Forged} : StartLogin(s, b, tok)
    \/ \E s \in Slots, tok \in Tokens : StartLogout(s, tok)
    \/ \E s \in Slots, path \in ProtectedPaths, tok \in Tokens : StartGet(s, path, tok)
    \/ \E s \in Slots : Deserialize(s)
    \/ \E s \in Slots : LoginLookup(s)
    \/ \E s \in Slots : LoginCompare(s)
    \/ \E s \in Slots : Finish(s)
    \/ Tick
    \/ \E i \in 1..Len(users), role \in Roles : ChangeRole(i, role)

Spec == Init /\ [][Next]_vars

\* the registration endpoint alone, over bodies with every combination of
\* valid and invalid fields
NextSignup ==
    \/ \E s \in Slots, b \in FieldBodies : StartSignup(s, b)
    \/ \E s \in Slots : SignupEmailCheck(s)
    \/ \E s \in Slots : SignupUsernameCheck(s)
    \/ \E s \in Slots : SignupHash(s)
    \/ \E s \in Slots : SignupInsert(s)
    \/ \E s \in Slots : Finish(s)

SpecSignup == Init /\ [][NextSignup]_vars

\* the session scenarios: two registered users who log in with their own
\* credentials, from several devices, log out and open the dashboard; the
\* request budget is MaxSessionRequests
InitSessions ==
    /\ users = <<Registered(BodyB, 1), Registered(BodyC, 2)>>
    /\ sessions = [x \in {} |-> [user |-> 0, expires |-> 0]]
    /\ nextSid = 1
    /\ now = 0
    /\ slots = [s \in Slots |-> Idle]
    /\ started = MaxRequests - MaxSessionRequests
    /\ loggedOut = {}
    /\ born = [x \in {} |-> [at |-> 0, role |-> "user", user |-> 0]]
    /\ redirected = {}
    /\ load = NotLoading
    /\ probe = NotProbing

OwnCredentials ==
    {[email |-> EmailA, password |-> Secret1], [email |-> EmailB, password |-> Secret1]}

NextSessions ==
    \/ \E s \in Slots, b \in OwnCredentials : StartLogin(s, b, NoToken)
    \/ \E s \in Slots, tok \in Delivered : StartLogout(s, tok)
    \/ \E s \in Slots, tok \in Delivered : StartGet(s, "/dashboard", tok)
    \/ \E s \in Slots : Deserialize(s)
    \/ \E s \in Slots : LoginLookup(s)
    \/ \E s \in Slots : LoginCompare(s)
    \/ \E s \in Slots : Finish(s)

SpecSessions == InitSessions /\ [][NextSessions]_vars

\* the session scenarios with users that are deleted while sessions that
\* hold their id are live
NextRemoval ==
    \/ \E s \in Slots, b \in OwnCredentials : StartLogin(s, b, NoToken)
    \/ \E s \in Slots, path \in ProtectedPaths, tok \in Delivered : StartGet(s, path, tok)
    \/ \E s \in Slots, tok \in Delivered : StartLogout(s, tok)
    \/ \E s \in Slots : Deserialize(s)
    \/ \E s \in Slots : LoginLookup(s)
    \/ \E s \in Slots : LoginCompare(s)
    \/ \E s \in Slots : Finish(s)
    \/ \E i \in 1..Len(users) : RemoveUser(i)

SpecRemoval == InitSessions /\ [][NextRemoval]_vars

\* the redirection scenarios: two registered users, one of each role, log
\* in with their own credentials and their clients follow every redirection
\* they are sent, with the cookie they hold
InitRedirects ==
    /\ users = <<Registered(BodyB, 1), Registered(BodyC, 2)>>
    /\ sessions = [x \in {} |-> [user |-> 0, expires |-> 0]]
    /\ nextSid = 1
    /\ now = 0
    /\ slots = [s \in Slots |-> Idle]
    /\ started = MaxRequests - MaxRedirectRequests
    /\ loggedOut = {}
    /\ born = [x \in {} |-> [at |-> 0, role |-> "user", user |-> 0]]
    /\ redirected = {}
    /\ load = NotLoading
    /\ probe = NotProbing

\* a client follows a redirection: GET of the Location, with its cookie
Follow(s) == \E d \in redirected : StartGet(s, d.location, d.tok)

NextRedirects ==
    \/ \E s \in Slots, b \in OwnCredentials : StartLogin(s, b, NoToken)
    \/ \E s \in Slots : Follow(s)
    \/ \E s \in Slots : Deserialize(s)
    \/ \E s \in Slots : LoginLookup(s)
    \/ \E s \in Slots : LoginCompare(s)
    \/ \E s \in Slots : Finish(s)

SpecRedirects == InitRedirects /\ [][NextRedirects]_vars

\* ------------------------------------------------------------- start of the server
\* const requiredEnvVars, in the order validateEnvVars walks it
RequiredEnvVars == <<"DB_USER", "DB_HOST", "DB_NAME", "DB_PASSWORD", "PORT">>

\* the variables of the environment the load reads: a set of these is the
\* set of variables that are defined (for DB_SSL_CERT_PATH: names a file
\* that can be read)
EnvNames ==
    {RequiredEnvVars[i] : i \in 1..Len(RequiredEnvVars)} \cup {"ALLOWED_ORIGINS", "DB_SSL_CERT_PATH"}

NodeEnvs == {"production", "development", "test"}

NoThrow == [message |-> ""]

\* validateEnvVars(): throws for the first required variable that is unset
ValidateEnvVars(env) ==
    LET missing == {i \in 1..Len(RequiredEnvVars) : RequiredEnvVars[i] \notin env} IN
    IF missing = {} THEN NoThrow
    ELSE [message |-> "Missing required environment variable",
          var |-> RequiredEnvVars[CHOOSE i \in missing : \A j \in missing : i <= j]]

\* module.exports of authMiddleware.js
AuthMiddlewareExports == {"ensureAuthenticated"}

\* module.exports of roleMiddleware.js
RoleMiddlewareExports == {"ensureAdmin", "ensureUser", "ensureAdminOrUser"}

\* router.METHOD(path, ...handlers): Express throws for a handler that is not
\* a function, as a name that its module does not export is
RouterThrows(imports, exports) ==
    IF imports \subseteq exports THEN NoThrow
    ELSE [message |-> "Route.get() requires a callback function but got a [object Undefined]"]

\* the routes of userRoutes.js under /api/users and of signupRoute.js under
\* /api, with the routes the entry script defines itself
FirstRoutes(nodeEnv) ==
    {"GET /", "GET /api/health"}
    \cup (IF nodeEnv = "development" THEN {"GET /api/test-error"} ELSE {})
    \cup {"GET /api/users/admin-dashboard", "GET /api/users/user-profile",
          "GET /api/users/dashboard"}
    \cup {"GET /api/signup-page", "POST /api/signup"}

\* the routes of loginRoute.js under /api/user
LoginRoutes == {"GET /api/user/login-page", "POST /api/user/login", "GET /api/user/logout"}

\* the routes of homeRoute.js under /
HomeRoutes == {"GET /server-room"}

\* an exception thrown while the script loads is uncaught (the
\* uncaughtException handler is installed by the last lines of the script):
\* node prints it and the process exits with code 1
Uncaught(err) == [load EXCEPT !.pc = "exited", !.exit = 1, !.error = err]

\* require('./src/config/db'): validateEnvVars(), then new Pool(...), whose
\* ssl option reads the certificate file in production
LoadPool ==
    /\ load.pc = "start"
    /\ LET err == ValidateEnvVars(load.env)
           l == [load EXCEPT !.required = @ \cup {"db"}]
       IN load' =
            IF err # NoThrow THEN [Uncaught(err) EXCEPT !.required = l.required]
            ELSE IF load.nodeEnv = "production" /\ "DB_SSL_CERT_PATH" \notin load.env
            THEN [Uncaught([message |-> "ENOENT: no such file or directory"])
                    EXCEPT !.required = l.required]
            ELSE [l EXCEPT !.pc = "pool"]
    /\ UNCHANGED <<users, sessions, nextSid, now, slots, started, loggedOut, born,
                 redirected, probe>>

\* lines 15-110: passport configuration, validateEnvVars() again, logger,
\* express(), helmet, cors (whose origin option splits ALLOWED_ORIGINS in
\* production), parsers, rate limit, static files, views
LoadApp ==
    /\ load.pc = "pool"
    /\ LET err == ValidateEnvVars(load.env)
           l == [load EXCEPT !.required = @ \cup {"passportConfig"}]
       IN load' =
            IF err # NoThrow THEN [Uncaught(err) EXCEPT !.required = l.required]
            ELSE IF load.nodeEnv = "production" /\ "ALLOWED_ORIGINS" \notin load.env
            THEN [Uncaught([message |->
                      "Cannot read properties of undefined (reading 'split')"])
                    EXCEPT !.required = l.required]
            ELSE [l EXCEPT !.pc = "app"]
    /\ UNCHANGED <<users, sessions, nextSid, now, slots, started, loggedOut, born,
                 redirected, probe>>

\* lines 121-186: session, passport, the routes of the script, then
\* userRoutes and signupRoute are required and mounted
MountFirstRoutes ==
    /\ load.pc = "app"
    /\ LET err == RouterThrows({"ensureAuthenticated"}, AuthMiddlewareExports)
           bad == RouterThrows({"ensureAdmin", "ensureUser", "ensureAdminOrUser"},
                               RoleMiddlewareExports)
           l == [load EXCEPT !.required = @ \cup {"userRoutes", "signupRoute"}]
       IN load' =
            IF err # NoThrow \/ bad # NoThrow
            THEN [Uncaught(IF err # NoThrow THEN err ELSE bad)
                    EXCEPT !.required = l.required \ {"signupRoute"}]
            ELSE [l EXCEPT !.pc = "mounted", !.routes = FirstRoutes(load.nodeEnv)]
    /\ UNCHANGED <<users, sessions, nextSid, now, slots, started, loggedOut, born,
                 redirected, probe>>

\* lines 188-224: loginRoute is required (its router.get("/login-page",
\* ensureNotAuthenticated, ...) runs as the module is evaluated) and mounted,
\* then homeRoute, the 404 and error handlers, and app.listen
MountLoginAndListen ==
    /\ load.pc = "mounted"
    /\ LET err == RouterThrows({"ensureNotAuthenticated"}, AuthMiddlewareExports)
           l == [load EXCEPT !.required = @ \cup {"loginRoute"}]
       IN load' =
            IF err # NoThrow THEN [Uncaught(err) EXCEPT !.required = l.required]
            ELSE [l EXCEPT !.pc = "listening", !.required = @ \cup {"homeRoute"},
                           !.routes = @ \cup LoginRoutes \cup HomeRoutes]
    /\ UNCHANGED <<users, sessions, nextSid, now, slots, started, loggedOut, born,
                 redirected, probe>>

\* node server.js, in any environment
InitStartup ==
    /\ users = <<>>
    /\ sessions = [x \in {} |-> [user |-> 0, expires |-> 0]]
    /\ nextSid = 1
    /\ now = 0
    /\ slots = [s \in Slots |-> Idle]
    /\ started = 0
    /\ loggedOut = {}
    /\ born = [x \in {} |-> [at |-> 0, role |-> "user", user |-> 0]]
    /\ redirected = {}
    /\ \E env \in SUBSET EnvNames, nodeEnv \in NodeEnvs :
          load = [pc |-> "start", env |-> env, nodeEnv |-> nodeEnv, required |-> {},
                  routes |-> {}, exit |-> 0, error |-> NoThrow]
    /\ probe = NotProbing

NextStartup ==
    \/ LoadPool
    \/ LoadApp
    \/ MountFirstRoutes
    \/ MountLoginAndListen

SpecStartup == InitStartup /\ [][NextStartup]_vars

\* ------------------------------------------------------------- connection test
\* probe.queries: for each pool.query('SELECT 1') of connectWithRetry that
\* has not settled, the seconds it has waited; probe.timers: for each
\* pending setTimeout, the seconds left; probe.failed and probe.reported
\* count the lines written to console.error and console.log; probe.idle is
\* the number of idle clients of the pool; probe.db: the database accepts
\* connections; probe.alive: the process has not exited
Drop(q, i) == SubSeq(q, 1, i - 1) \o SubSeq(q, i + 1, Len(q))

ScheduleTwice(timers) == Append(Append(timers, RetryDelaySeconds), RetryDelaySeconds)

\* setTimeout(connectWithRetry, 5000)
Schedule(timers) == Append(timers, RetryDelaySeconds)

\* await pool.query('SELECT 1') resolves: console.log('Database connection
\* successful'); the client goes back to the pool, idle
ProbeSucceeds(i) ==
    /\ probe.alive /\ i \in 1..Len(probe.queries)
    /\ probe.db
    /\ probe' = [probe EXCEPT !.queries = Drop(@, i), !.reported = @ + 1,
                               !.idle = @ + 1]
    /\ UNCHANGED <<users, sessions, nextSid, now, slots, started, loggedOut, born,
                 redirected, load>>

\* await pool.query('SELECT 1') rejects (refused, or no connection within
\* connectionTimeoutMillis): the catch block logs and sets the timer
ProbeFails(i) ==
    /\ probe.alive /\ i \in 1..Len(probe.queries)
    /\ ~probe.db
    /\ probe.failed < MaxProbeFailures
    /\ probe' = [probe EXCEPT !.queries = Drop(@, i), !.failed = @ + 1,
                               !.timers = Schedule(@)]
    /\ UNCHANGED <<users, sessions, nextSid, now, slots, started, loggedOut, born,
                 redirected, load>>

\* a timer that has run out calls connectWithRetry, which issues the query
TimerFires(j) ==
    /\ probe.alive /\ j \in 1..Len(probe.timers)
    /\ probe.timers[j] = 0
    /\ probe' = [probe EXCEPT !.timers = Drop(@, j), !.queries = Append(@, 0)]
    /\ UNCHANGED <<users, sessions, nextSid, now, slots, started, loggedOut, born,
                 redirected, load>>

\* a second passes for the process: no timer is overdue and no query is
\* past the connection timeout
Second ==
    /\ probe.alive
    /\ probe.queries # <<>> \/ probe.timers # <<>>
    /\ \A j \in 1..Len(probe.timers) : probe.timers[j] > 0
    /\ \A i \in 1..Len(probe.queries) : probe.queries[i] < ConnectionTimeoutSeconds
    /\ probe' = [probe EXCEPT
                   !.timers = [j \in 1..Len(@) |-> @[j] - 1],
                   !.queries = [i \in 1..Len(@) |-> @[i] + 1]]
    /\ UNCHANGED <<users, sessions, nextSid, now, slots, started, loggedOut, born,
                 redirected, load>>

\* pool.on('error'): an idle client loses its connection; process.exit(-1)
PoolError ==
    /\ probe.alive /\ probe.idle > 0
    /\ ~probe.db
    /\ probe' = [probe EXCEPT !.alive = FALSE]
    /\ UNCHANGED <<users, sessions, nextSid, now, slots, started, loggedOut, born,
                 redirected, load>>

\* the database stops, or starts, accepting connections
DbGoesDown ==
    /\ probe.db
    /\ probe' = [probe EXCEPT !.db = FALSE]
    /\ UNCHANGED <<users, sessions, nextSid, now, slots, started, loggedOut, born,
                 redirected, load>>

DbComesUp ==
    /\ ~probe.db
    /\ probe' = [probe EXCEPT !.db = TRUE]
    /\ UNCHANGED <<users, sessions, nextSid, now, slots, started, loggedOut, born,
                 redirected, load>>

\* the pool module has been evaluated: connectWithRetry() has issued the
\* first query
InitProbe ==
    /\ users = <<>>
    /\ sessions = [x \in {} |-> [user |-> 0, expires |-> 0]]
    /\ nextSid = 1
    /\ now = 0
    /\ slots = [s \in Slots |-> Idle]
    /\ started = 0
    /\ loggedOut = {}
    /\ born = [x \in {} |-> [at |-> 0, role |-> "user", user |-> 0]]
    /\ redirected = {}
    /\ load = NotLoading
    /\ \E db \in BOOLEAN :
          probe = [db |-> db, alive |-> TRUE, queries |-> <<0>>, timers |-> <<>>,
                   failed |-> 0, reported |-> 0, idle |-> 0]

NextProbe ==
    \/ \E i \in 1..Len(probe.queries) : ProbeSucceeds(i)
    \/ \E i \in 1..Len(probe.queries) : ProbeFails(i)
    \/ \E j \in 1..Len(probe.timers) : TimerFires(j)
    \/ Second
    \/ PoolError
    \/ DbGoesDown
    \/ DbComesUp

\* the event loop runs a callback that is ready, and time passes
SpecProbe ==
    /\ InitProbe /\ [][NextProbe]_vars
    /\ WF_vars(\E i \in 1..Len(probe.queries) : ProbeSucceeds(i))
    /\ WF_vars(\E i \in 1..Len(probe.queries) : ProbeFails(i))
    /\ WF_vars(\E j \in 1..Len(probe.timers) : TimerFires(j))
    /\ WF_vars(Second)

\* ------------------------------------------------------------- properties
Range(q) == {q[i] : i \in 1..Len(q)}

Requests == {slots[s] : s \in Slots}

Responded == {r \in Requests : r.pc = "done"}

\* C1: in every reachable state no two stored users share an email and no
\* two stored users share a username, whatever the interleaving of the
\* registrations
C1_UniqueEmailAndUsername ==
    \A i, j \in 1..Len(users) :
        i # j => /\ users[i].email # users[j].email
                 /\ users[i].username # users[j].username

\* two registrations with the same email both passed the pre-checks; one
\* inserted, the store rejected the other
C1_Witness ==
    \E s, t \in Slots :
        /\ slots[s].kind = "signup" /\ slots[s].status = 201
        /\ slots[t].kind = "signup" /\ slots[t].err = UniqueViolationError
        /\ slots[t].body.email = slots[s].body.email
        /\ Len(users) = 1

\* C2: a registration whose email is in the table when its email check
\* runs, or whose username is in the table when its username check runs,
\* ends there with 409, has computed no hash, inserts nothing (the table is
\* unchanged by the step) and does nothing more afterwards
C2_ConflictNoHashNoInsert ==
    [][\A s \in Slots :
          LET r == slots[s]
              q == slots'[s]
          IN /\ ( /\ r.kind = "signup" /\ q # r /\ q.err # DbDown
                  /\ \/ r.pc = "emailCheck" /\ \E u \in UserSet : u.email = r.body.email
                     \/ r.pc = "usernameCheck"
                        /\ \E u \in UserSet : u.username = r.body.username )
                => /\ q.pc = "done" /\ q.status = 409
                   /\ q.hash = <<>>
                   /\ {"hash", "insert"} \cap Range(q.trace) = {}
                   /\ users' = users
             /\ (r.kind = "signup" /\ r.status = 409 /\ q # r) => q = Idle]_vars

\* a registration was answered 409 for its username, after its email passed
C2_Witness ==
    \E s \in Slots :
        /\ slots[s].kind = "signup" /\ slots[s].status = 409
        /\ slots[s].trace = <<"validate", "emailCheck", "usernameCheck">>
        /\ slots[s].resp = [error |-> "Username already exists"]

\* C3: a registration whose INSERT the unique constraint rejected is
\* answered with a 409-class status
C3_LateViolationIs409 ==
    \A r \in Responded :
        (r.kind = "signup" /\ r.err = UniqueViolationError) => r.status = 409

WrongPassword(r) ==
    /\ r.kind = "login" /\ r.pc = "done" /\ r.err = NoErr
    /\ r.found.id # 0 /\ r.found.email = r.body.email
    /\ r.found.password # Hash(r.body.password)

UnknownEmail(r) ==
    /\ r.kind = "login" /\ r.pc = "done" /\ r.err = NoErr
    /\ r.found.id = 0 /\ r.trace[Len(r.trace)] = "lookup"

LeaksHash(resp) ==
    /\ "user" \in DOMAIN resp
    /\ "password" \in DOMAIN resp.user
    /\ resp.user.password \in {u.password : u \in UserSet}

\* C5: no response body carries a stored password hash
C5_NoHashInResponse == \A r \in Responded : ~LeaksHash(r.resp)

\* C6: once a logout has completed for a token, the token has no session
\* record, and every request that arrives with it later reconstitutes no
\* user: a protected request is stopped by the authentication gate with
\* 401, and a login does not resume the old session
C6_LoggedOutTokenStaysDead ==
    /\ \A t \in loggedOut : t \notin DOMAIN sessions
    /\ \A r \in Requests :
          r.late => /\ r.sessUser = 0
                    /\ r.sid # r.tok
                    /\ r.kind \in {"get", "logout"} => r.user = NoUser
                    /\ r.kind = "get" => /\ r.status = 401
                                         /\ r.trace = <<"ensureAuthenticated">>

\* a token whose session had not expired is replayed after its logout
C6_Witness ==
    \E r \in Requests :
        /\ r.late /\ r.kind = "get" /\ r.status = 401
        /\ now < MaxAgeHours

\* C7: the session a successful login establishes stores the id of the
\* user whose credentials were verified, a session record never changes
\* its user, and a request reconstituted from a session has attached the
\* stored row whose id the session holds
C7_SessionReconstitutesItsUser ==
    [][/\ \A r \in {slots'[s] : s \in Slots} :
             /\ (r.kind = "login" /\ r.status = 302)
                   => /\ r.sid \in DOMAIN sessions'
                      /\ sessions'[r.sid].user = r.found.id
                      /\ r.found.email = r.body.email
                      /\ r.found.password = Hash(r.body.password)
                      /\ r.found \in {users'[i] : i \in 1..Len(users')}
             /\ (r.kind # "login" /\ r.user.id # 0)
                   => /\ r.user.id = r.sessUser
                      /\ r.user = users'[r.sessUser]
       /\ \A x \in DOMAIN sessions \cap DOMAIN sessions' :
             sessions'[x].user = sessions[x].user
       /\ \A s \in Slots :
             (slots[s] = Idle /\ slots'[s].sid # 0)
                => /\ slots'[s].sid = slots'[s].tok
                   /\ slots'[s].sessUser = sessions[slots'[s].tok].user]_vars

\* a session of the second user of the table serves a protected request
C7_Witness ==
    \E r \in Requests :
        /\ r.kind = "get" /\ r.status = 200
        /\ r.user.id = 2 /\ r.sid \in DOMAIN sessions
        /\ sessions[r.sid].user = 2

IsRoleGate(m) == m \in {"ensureAdmin", "ensureUser", "ensureAdminOrUser"}

\* C8: on a protected route a role gate runs only after the authentication
\* gate has allowed the request; an unauthenticated request is answered by
\* the authentication gate alone
C8_RoleGateAfterAuthenticationGate ==
    \A r \in Responded :
        r.kind = "get" =>
            /\ \A i \in 1..Len(r.trace) :
                  IsRoleGate(r.trace[i]) =>
                      /\ r.user.id # 0
                      /\ \E j \in 1..(i - 1) : r.trace[j] = "ensureAuthenticated"
            /\ (r.user.id = 0 /\ r.err = NoErr) =>
                  r.trace = <<"ensureAuthenticated">> /\ r.status = 401

\* one request was stopped at the authentication gate while another went
\* through it to its role gate
C8_Witness ==
    \E a, b \in Responded :
        /\ a.kind = "get" /\ a.trace = <<"ensureAuthenticated">> /\ a.status = 401
        /\ b.kind = "get" /\ a.path = b.path
        /\ \E i \in 1..Len(b.trace) : IsRoleGate(b.trace[i])

\* C9: a request to a protected route that arrives without a live session
\* (no cookie, a cookie the server never issued, a destroyed or an expired
\* session) does not reach the handler and is answered 401 with one body
C9_NoSessionIs401 ==
    [][\A s \in Slots :
          LET q == slots'[s] IN
          ( /\ slots[s] = Idle /\ q.kind = "get"
            /\ ~(q.tok \in DOMAIN sessions /\ sessions[q.tok].expires > now) )
          => /\ q.pc = "done" /\ q.status = 401
             /\ q.resp = [message |-> "Unauthorized"]
             /\ "handler" \notin Range(q.trace)]_vars

\* the session of a delivered token expired, and a request with it and a
\* request with no cookie got the same 401
C9_Witness ==
    \E a, b \in Responded :
        /\ a.kind = "get" /\ a.tok \in Delivered /\ a.tok \notin loggedOut
        /\ now >= MaxAgeHours /\ a.sid = 0 /\ a.status = 401
        /\ b.kind = "get" /\ b.tok = NoToken /\ b.status = 401 /\ a.resp = b.resp

\* C10: on GET /admin-dashboard an authenticated principal reaches the
\* handler exactly when the role of its stored row is admin; a user-role
\* principal is answered 403
C10_AdminOnly ==
    \A r \in Responded :
        (r.kind = "get" /\ r.path = "/admin-dashboard" /\ r.user.id # 0) =>
            /\ r.user = users[r.user.id]
            /\ ("handler" \in Range(r.trace)) <=> (r.user.role = "admin")
            /\ r.user.role = "admin" => r.status = 200
            /\ r.user.role = "user" => r.status = 403

\* a user-role principal was denied on the admin dashboard
C10_Witness ==
    \E r \in Responded :
        /\ r.kind = "get" /\ r.path = "/admin-dashboard"
        /\ r.user.id # 0 /\ r.user.role = "user" /\ r.status = 403
        /\ r.trace = <<"deserialize", "ensureAuthenticated", "ensureAdmin">>

RoleAllowed(path, role) ==
    CASE path = "/admin-dashboard" -> role = "admin"
      [] path = "/user-profile" -> role = "user"
      [] path = "/dashboard" -> role \in {"admin", "user"}
      [] path = "/server-room" -> role = "user"

\* C11: on a protected route the handler runs only after the authentication
\* gate and then the role gate of the route both allowed; a request denied
\* by a gate (401 or 403) ran nothing after that gate and carries the gate's
\* body; no request is answered twice, and a request leaves the server only
\* with exactly one response sent
C11_DenyIsTerminal ==
    [][/\ \A r \in {slots'[s] : s \in Slots} :
             /\ r.sent <= 1
             /\ (r.pc = "done") <=> (r.sent = 1)
             /\ (r.kind = "get" /\ "handler" \in Range(r.trace)) =>
                   /\ r.trace = <<"deserialize">> \o Middleware(r.path)
                   /\ IsRoleGate(r.trace[3])
                   /\ r.user.id # 0 /\ RoleAllowed(r.path, r.user.role)
                   /\ r.status = 200
             /\ (r.kind = "get" /\ r.pc = "done" /\ r.err = NoErr
                 /\ ~(r.user.id # 0 /\ RoleAllowed(r.path, r.user.role))) =>
                   /\ "handler" \notin Range(r.trace)
                   /\ r.status \in {401, 403}
                   /\ DOMAIN r.resp = {"message"}
                   /\ r.status = 401 <=> r.user.id = 0
       /\ \A s \in Slots :
             (slots[s] # Idle /\ slots'[s] = Idle) => slots[s].sent = 1]_vars

\* an authenticated admin was denied by the role gate of a user-only route:
\* one response, sent by the gate, and no handler
C11_Witness ==
    \E a \in Responded :
        /\ a.kind = "get" /\ a.user.id # 0 /\ a.user.role = "admin"
        /\ a.status = 403 /\ a.sent = 1
        /\ a.trace = <<"deserialize", "ensureAuthenticated", "ensureUser">>
        /\ a.resp = [message |-> "Forbidden: User access required"]

EmailAbsent(r) == \A u \in UserSet : u.email # r.body.email

UsernameAbsent(r) == \A u \in UserSet : u.username # r.body.username

\* C12: a registration that passed validation goes, while the store answers,
\* through each uniqueness check its value is absent for, computes a hash
\* that is not the plaintext, and at an INSERT with email and username both
\* absent is answered 201, adds exactly one row whose password column is
\* that hash, and returns that row without any password field
C12_SignupSucceeds ==
    [][\A s \in Slots :
          LET r == slots[s]
              q == slots'[s]
          IN /\ (r = Idle /\ q.kind = "signup") =>
                   ((q.pc = "emailCheck") <=> (ValidationErrors(q.body) = <<>>))
             /\ (r.kind = "signup" /\ q # r /\ q.err # DbDown) =>
                   /\ (r.pc = "emailCheck" /\ EmailAbsent(r)) => q.pc = "usernameCheck"
                   /\ (r.pc = "usernameCheck" /\ UsernameAbsent(r)) => q.pc = "hash"
                   /\ r.pc = "hash" => /\ q.pc = "insert"
                                       /\ q.hash # r.body.password
                                       /\ Compare(r.body.password, q.hash)
                   /\ (r.pc = "insert" /\ EmailAbsent(r) /\ UsernameAbsent(r)) =>
                         /\ q.status = 201 /\ q.pc = "done"
                         /\ Len(users') = Len(users) + 1
                         /\ SubSeq(users', 1, Len(users)) = users
                         /\ LET row == users'[Len(users')] IN
                               /\ row.email = r.body.email
                               /\ row.username = r.body.username
                               /\ row.password = r.hash
                               /\ row.password # r.body.password
                               /\ "password" \notin DOMAIN q.resp.user
                               /\ q.resp.user = [f \in DOMAIN row \ {"password"} |-> row[f]]
                               /\ \A f \in {"name", "email", "username"} :
                                     q.resp.user[f] \notin {r.body.password, r.hash}]_vars

\* a registration was answered 201 into a table that already held a user
C12_Witness ==
    \E r \in Responded :
        /\ r.kind = "signup" /\ r.status = 201 /\ r.resp.user.id = 2
        /\ Len(users) = 2 /\ users[2].password = Hash(r.body.password)
        /\ DOMAIN r.resp.user = {"id", "name", "email", "username", "role"}

\* an error the store or the hasher raised, not a decision of the server
Infrastructure(r) == r.err \in {DbDown, HashDown}

\* C13: an error response does not tell whether the email of the request is
\* registered: a request answered with an error after its lookup found the
\* email, and the same request answered after its lookup found no such
\* email, got the same status and body (the store and the hasher working)
C13_ErrorsHideRegistration ==
    \A a, b \in Responded :
        ( /\ a.kind = b.kind /\ a.body = b.body
          /\ a.seen = "registered" /\ b.seen = "absent"
          /\ ~Infrastructure(a) /\ ~Infrastructure(b)
          /\ a.status >= 400 )
        => a.status = b.status /\ a.resp = b.resp

\* letter case folded, over the letters the inputs use
LowerChar(c) == CASE c = "A" -> "a" [] c = "B" -> "b" [] OTHER -> c

Lower(s) == [i \in 1..Len(s) |-> LowerChar(s[i])]

\* C14: a login whose email equals a stored user's email up to letter case,
\* with that user's password, is verified as that user: it is answered with
\* the redirect and a session holding that user's id (the store and the
\* hasher working)
C14_CaseInsensitiveLookup ==
    \A r \in Responded :
        \A u \in UserSet :
            ( /\ r.kind = "login" /\ ~Infrastructure(r)
              /\ r.body.email # <<>> /\ Lower(r.body.email) = Lower(u.email)
              /\ Compare(r.body.password, u.password) )
            => /\ r.status = 302
               /\ r.sid \in DOMAIN sessions /\ sessions[r.sid].user = u.id

EmptyCredentials(r) ==
    r.kind = "login" /\ (r.body.email = <<>> \/ r.body.password = <<>>)

\* C15 as stated: a login with an empty email or an empty password performs
\* no query at all, the one that reconstitutes the user of a presented live
\* session included
C15_NoQueryAtAll ==
    \A r \in Responded : EmptyCredentials(r) => r.trace = <<"required">>

\* C15: a login with an empty email or an empty password is rejected by the
\* route before the lookup by email and before any hash comparison: once
\* handed to the route it is answered at once, has found no row, and the
\* step creates no session and no session id. (A live session presented
\* with it is still reconstituted before the route, as for every request.)
C15_EmptyCredentialsFailFast ==
    [][\A s \in Slots :
          LET r == slots[s]
              q == slots'[s]
          IN (EmptyCredentials(q) /\ q # r /\ q.pc # "deserialize")
             => /\ q.pc = "done"
                /\ {"lookup", "compare", "logIn"} \cap Range(q.trace) = {}
                /\ q.seen = "unasked" /\ q.found = NoUser
                /\ q.status # 302
                /\ q.sid \in {0, q.tok}
                /\ nextSid' = nextSid
                /\ DOMAIN sessions' \subseteq DOMAIN sessions
                /\ \A x \in DOMAIN sessions' : sessions'[x] = sessions[x]]_vars

\* a login with an empty password, presented with a live session, was
\* rejected by the route after the session's user was reconstituted
C15_Witness ==
    \E r \in Responded :
        /\ EmptyCredentials(r) /\ r.body.email # <<>>
        /\ r.trace = <<"deserialize", "required">>
        /\ r.status = 400 /\ r.user.id # 0 /\ r.sid \in DOMAIN sessions

\* C16: every login that fails as an authentication failure (a credential
\* absent, the email unknown, the password wrong) is answered 401 with the
\* generic message
C16_LoginFailureIs401 ==
    \A r \in Responded :
        (r.kind = "login" /\ r.err \notin {DbDown, HashDown, DeserializeError}
         /\ r.status # 302)
        => r.status = 401 /\ r.resp = GenericFailure

\* C17: a login whose lookup by email or whose hash comparison raised an
\* error ends in the centralized error handler with 500 and the error's
\* message, never with the 401 of a failed verification, and the step
\* leaves the session store and the session of the request as they were
C17_LoginInfrastructureFailure ==
    [][\A s \in Slots :
          LET r == slots[s]
              q == slots'[s]
          IN ( /\ r.kind = "login" /\ r.pc \in {"lookup", "compare"}
               /\ q.err \in {DbDown, HashDown} )
             => /\ q.pc = "done" /\ q.status = 500
                /\ q.resp = [error |-> q.err.message]
                /\ q.resp # GenericFailure
                /\ q.sid = r.sid /\ q.user = r.user
                /\ sessions' = sessions /\ nextSid' = nextSid]_vars

\* the comparison raised an error for a login that had the right password
C17_Witness ==
    \E r \in Responded :
        /\ r.kind = "login" /\ r.err = HashDown /\ r.status = 500
        /\ r.found.id # 0 /\ Compare(r.body.password, r.found.password)
        /\ r.trace[Len(r.trace)] = "compare"

\* C18: a logout handed to its route is answered 200 with the confirmation
\* whatever it presented (a live session, a destroyed or expired one, a
\* token the server never issued, none); after it the store has no record
\* for its token and every other record is as before, so a logout of a
\* token that has no record leaves the store as it is; and no logout leaves
\* the server unanswered. (A live session whose user cannot be re-fetched
\* because the store is down is the 500 of the error taxonomy.)
C18_LogoutAlways200 ==
    [][\A s \in Slots :
          LET r == slots[s]
              q == slots'[s]
          IN /\ (q.kind = "logout" /\ q # r /\ q.pc = "done" /\ q.err # DbDown) =>
                   /\ q.status = 200 /\ q.resp = [message |-> "Logout successful"]
                   /\ q.sent = 1 /\ q.user = NoUser
                   /\ q.tok \notin DOMAIN sessions'
                   /\ \A x \in DOMAIN sessions \ {q.tok} :
                         x \in DOMAIN sessions' /\ sessions'[x] = sessions[x]
                   /\ DOMAIN sessions' \subseteq DOMAIN sessions
                   /\ q.tok \notin DOMAIN sessions => sessions' = sessions
             /\ (r.kind = "logout" /\ q = Idle) => r.sent = 1]_vars

\* a token was logged out a second time, and answered 200 again
C18_Witness ==
    \E r \in Responded :
        /\ r.kind = "logout" /\ r.late /\ r.tok \in loggedOut
        /\ r.status = 200 /\ r.tok \notin DOMAIN sessions

\* C19: the role decision of a protected request on a session is taken on
\* the row of the session's user as the store holds it now, not as it was
\* when the session was established: the attached user is the stored row,
\* and the request is allowed exactly when the stored role is one the route
\* admits
C19_RoleDecidedOnStoredUser ==
    \A r \in Responded :
        (r.kind = "get" /\ r.sid # 0 /\ r.err = NoErr) =>
            LET u == users[r.sessUser] IN
            /\ r.user = u
            /\ r.status = 200 <=> RoleAllowed(r.path, u.role)
            /\ r.status = 403 <=> ~RoleAllowed(r.path, u.role)

\* a user was made admin after logging in, and the same session then
\* opened the admin dashboard
C19_Witness ==
    \E r \in Responded :
        /\ r.kind = "get" /\ r.path = "/admin-dashboard" /\ r.sid # 0
        /\ born[r.sid].role = "user" /\ users[r.sessUser].role = "admin"
        /\ r.status = 200

\* C20: a session is accepted only within 24 hours of its creation, however
\* many requests used it in between: no request is served on a session
\* that was created MaxAgeHours or more ago
C20_FixedExpiry ==
    \A r \in Requests :
        r.sid # 0 => now < born[r.sid].at + MaxAgeHours

\* the fields of a sanitized body that the validation chain refuses
InvalidFields(b) ==
    {f \in {"name"} : Len(b.name) = 0}
    \cup {f \in {"email"} : ~IsEmail(b.email)}
    \cup {f \in {"username"} : Len(b.username) = 0}
    \cup {f \in {"password"} : Len(b.password) < 6}
    \cup {f \in {"role"} : b.role \notin {"admin", "user"}}

SignupOrder == <<"validate", "emailCheck", "usernameCheck", "hash", "insert">>

\* C22: a registration takes its steps in the order validation, email
\* check, username check, hashing, insert, one at a time and none twice;
\* it may end rejected after any of them and ends Complete (201) only after
\* all five; a hash exists only once both checks passed and the insert runs
\* only with the hash; a body whose email and username both collide is
\* rejected for the email
C22_SignupStateMachine ==
    [][\A s \in Slots :
          LET r == slots[s]
              q == slots'[s]
              n == Len(q.trace)
          IN /\ q.kind = "signup" =>
                   /\ n \in 1..5 /\ q.trace = SubSeq(SignupOrder, 1, n)
                   /\ q.pc # "done" => (n < 5 /\ q.pc = SignupOrder[n + 1])
                   /\ q.pc = "done" => (q.status = 201 \/ q.status >= 400)
                   /\ q.status = 201 <=> (q.pc = "done" /\ n = 5 /\ q.err = NoErr)
                   /\ q.hash # <<>> <=> n >= 4
                   /\ q.sent <= 1
             /\ (r.kind = "signup" /\ q # r) =>
                   \/ r.pc = "done" /\ q = Idle
                   \/ r.pc # "done" /\ q.kind = "signup" /\ n = Len(r.trace) + 1
             /\ (r.kind = "signup" /\ r.pc = "emailCheck" /\ q # r /\ q.err # DbDown
                 /\ ~EmailAbsent(r) /\ ~UsernameAbsent(r)) =>
                   /\ q.status = 409 /\ q.resp = [error |-> "Email already exists"]]_vars

\* a body whose email and username are both taken was rejected for the email
C22_Witness ==
    \E r \in Responded :
        /\ r.kind = "signup" /\ r.status = 409
        /\ r.resp = [error |-> "Email already exists"]
        /\ \E u \in UserSet : u.username = r.body.username /\ u.email = r.body.email

\* the next step of the request in slot s
Step(s) ==
    \/ SignupEmailCheck(s) \/ SignupUsernameCheck(s) \/ SignupHash(s) \/ SignupInsert(s)
    \/ Deserialize(s) \/ LoginLookup(s) \/ LoginCompare(s) \/ Finish(s)

\* a request in flight together with a logout of the token it presents
RacesLogout(r) ==
    /\ r.kind # "idle" /\ r.tok \in 1..(nextSid - 1)
    /\ \/ r.tok \in loggedOut /\ ~r.late
       \/ \E l \in Requests : l.kind = "logout" /\ l.tok = r.tok /\ l # r

\* C23: a request in flight together with a logout of its token always has
\* a next step until it has left, is answered once and normally (the store
\* working): a protected request is served on the user attached to it or
\* is answered 401 with none attached, a logout is answered 200; the token
\* of a completed logout has no session record again, and a request that
\* arrives with it afterwards has no session
C23_LogoutRaceIsSafe ==
    /\ \A s \in Slots :
          LET r == slots[s] IN
          RacesLogout(r) =>
             /\ ENABLED Step(s)
             /\ r.sent <= 1
             /\ (r.pc = "done" /\ r.err # DbDown /\ r.err # HashDown) =>
                   /\ r.sent = 1
                   /\ r.kind = "logout" => r.status = 200
                   /\ r.kind = "get" =>
                         \/ r.user.id # 0 /\ r.user = users[r.sessUser]
                            /\ r.status \in {200, 403}
                         \/ r.user = NoUser /\ r.status = 401
    /\ \A t \in loggedOut : t \notin DOMAIN sessions
    /\ \A r \in Requests : r.late => (r.sessUser = 0 /\ r.sid # r.tok)

\* a protected request that arrived before the logout of its token completed
\* was served after it, and the token stayed dead
C23_Witness ==
    \E r \in Responded :
        /\ r.kind = "get" /\ r.tok \in loggedOut /\ ~r.late
        /\ r.status = 200 /\ r.user.id # 0
        /\ \A s \in Slots : slots[s].kind # "logout"

\* C24: the step that completes a logout removes no other session record
\* and changes none, whoever its user is; and every protected request that
\* arrives on a session that was not logged out is served on the user the
\* session was created for, whatever other sessions were logged out before
C24_LogoutDestroysOnlyItsSession ==
    [][\A s \in Slots :
          LET r == slots[s]
              q == slots'[s]
          IN /\ (q.kind = "logout" /\ q.pc = "done" /\ q # r) =>
                   \A x \in DOMAIN sessions \ {q.tok} :
                       x \in DOMAIN sessions' /\ sessions'[x] = sessions[x]
             /\ (q.kind = "get" /\ q.pc = "done" /\ q # r /\ q.err # DbDown
                 /\ q.tok \notin q.gone) =>
                   /\ q.status = 200
                   /\ q.user.id = born[q.tok].user
                   /\ q.user = users[q.user.id]]_vars

\* a user logged in twice and logged the later session out; a request that
\* arrived afterwards on the earlier session was served as that user
C24_Witness ==
    \E r \in Responded :
        /\ r.kind = "get" /\ r.status = 200
        /\ \E t \in r.gone :
              t # r.tok /\ born[t].user = r.user.id /\ r.tok < t

\* C25: a session record appears only in the step in which a login is
\* answered with the redirect, for a stored user whose email is the one
\* submitted and whose stored hash is the hash of the password submitted,
\* and it holds that user's id; a login that is answered otherwise, or has
\* not been answered yet, has added no record and taken no session id
C25_SessionOnlyByVerification ==
    [][/\ \A x \in DOMAIN sessions' \ DOMAIN sessions :
             \E s \in Slots :
                 LET q == slots'[s] IN
                 /\ slots[s].kind = "login" /\ slots[s].pc = "compare"
                 /\ q.status = 302 /\ q.sid = x /\ x = nextSid
                 /\ q.found \in UserSet
                 /\ q.found.email = q.body.email
                 /\ q.found.password = Hash(q.body.password)
                 /\ sessions'[x].user = q.found.id
       /\ \A s \in Slots :
             LET r == slots[s]
                 q == slots'[s]
             IN (q.kind = "login" /\ q # r /\ q.status # 302) =>
                   /\ DOMAIN sessions' \subseteq DOMAIN sessions
                   /\ nextSid' = nextSid
                   /\ q.sid \in {0, q.tok}]_vars

\* a login with a wrong password was refused while the store held a session
C25_Witness ==
    \E r \in Responded :
        /\ WrongPassword(r) /\ r.status = 401
        /\ DOMAIN sessions # {} /\ nextSid = 2

\* C26: a step of a request changes the users table only when it is the
\* step that answers a registration with 201, and then it appends one row
\* with an id no stored user has and leaves every stored row as it was;
\* steps of logins, logouts, protected requests and rejected registrations
\* leave the table unchanged
C26_UsersOnlyByRegistration ==
    [][slots' # slots =>
          \/ users' = users
          \/ /\ \E s \in Slots :
                   /\ slots[s].kind = "signup" /\ slots[s].pc = "insert"
                   /\ slots'[s].status = 201
                   /\ \A x \in Slots \ {s} : slots'[x] = slots[x]
             /\ Len(users') = Len(users) + 1
             /\ \A i \in 1..Len(users) : users'[i] = users[i]
             /\ \A i \in 1..Len(users) : users[i].id # users'[Len(users')].id]_vars

\* a second user was registered while a login was being answered, and the
\* first user's row is as it was registered
C26_Witness ==
    \E r, l \in Responded :
        /\ r.kind = "signup" /\ r.status = 201 /\ r.resp.user.id = 2
        /\ l.kind = "login" /\ l.trace # <<>>
        /\ users[1] = Registered(BodyB, 1)

\* C27: every stored user has role admin or role user, whatever role the
\* registration bodies carried
C27_StoredRolesAreClosed ==
    \A i \in 1..Len(users) : users[i].role = "admin" \/ users[i].role = "user"

\* an admin was registered, and a body differing from a valid one only by
\* a role outside the enumeration was refused
C27_Witness ==
    \E a, b \in Responded :
        /\ a.kind = "signup" /\ a.status = 201 /\ a.body.role = "admin"
        /\ users[a.resp.user.id].role = "admin"
        /\ b.kind = "signup" /\ b.status = 400
        /\ b.body.role = "root" /\ InvalidFields(b.body) = {"role"}

\* C28: a request that ended on an error of the store or of the hasher is
\* answered 500 with a generic body that carries nothing of the error
C28_InfrastructureFailureIsGeneric ==
    \A r \in Responded :
        r.err \in {DbDown, HashDown, UniqueViolationError, DeserializeError} =>
            /\ r.status = 500
            /\ r.resp = [error |-> "Internal Server Error"]

\* C29: every request to /dashboard with a user attached is answered 200 by
\* the handler, never 403 by the role gate
C29_DashboardForEveryRole ==
    \A r \in Responded :
        (r.kind = "get" /\ r.path = "/dashboard" /\ r.user.id # 0) =>
            /\ r.user.role \in {"admin", "user"}
            /\ r.status = 200
            /\ r.trace =
                  <<"deserialize", "ensureAuthenticated", "ensureAdminOrUser", "handler">>

\* an admin and a user, each on the session of their own login, both have
\* the dashboard
C29_Witness ==
    \E a, b \in Responded :
        /\ a.kind = "get" /\ a.path = "/dashboard" /\ a.status = 200
        /\ b.kind = "get" /\ b.path = "/dashboard" /\ b.status = 200
        /\ a.user.role = "admin" /\ b.user.role = "user"
        /\ born[a.tok].user = a.user.id /\ born[b.tok].user = b.user.id

\* C30: on /user-profile and /server-room a request with a user attached
\* reaches the handler exactly when the role of that user is user; an
\* admin is answered 403 by the role gate and the handler does not run
C30_UserOnlyResources ==
    \A r \in Responded :
        (r.kind = "get" /\ r.path \in {"/user-profile", "/server-room"}
         /\ r.user.id # 0) =>
            /\ ("handler" \in Range(r.trace)) <=> (r.user.role = "user")
            /\ r.user.role = "user" =>
                  r.trace = <<"deserialize", "ensureAuthenticated", "ensureUser", "handler">>
            /\ r.user.role = "admin" =>
                  /\ r.status = 403
                  /\ r.resp = [message |-> "Forbidden: User access required"]
                  /\ r.trace = <<"deserialize", "ensureAuthenticated", "ensureUser">>

\* an admin was refused the server room
C30_Witness ==
    \E r \in Responded :
        /\ r.kind = "get" /\ r.path = "/server-room"
        /\ r.user.id # 0 /\ users[r.user.id].role = "admin"
        /\ r.status = 403 /\ "handler" \notin Range(r.trace)

C32_UnresolvedSessionIsUnauthenticated ==
    \A r \in Responded :
        /\ (r.kind = "get" /\ r.sessUser # 0 /\ SelectById(r.sessUser) = <<>>
             /\ r.err # DbDown) =>
              /\ r.user = NoUser
              /\ r.status = 401 /\ r.resp = [message |-> "Unauthorized"]
              /\ r.trace[Len(r.trace)] = "ensureAuthenticated"
        /\ (\E i \in 1..Len(r.trace) : IsRoleGate(r.trace[i])) => r.user # NoUser

\* C33: once the load of the entry script has required the login router,
\* the server is listening with the login, logout and login-page routes
\* registered, the login page behind the ensureNotAuthenticated gate that
\* the authentication middleware module exports
C33_LoginRoutesRegistered ==
    "loginRoute" \in load.required =>
        /\ "ensureNotAuthenticated" \in AuthMiddlewareExports
        /\ load.pc = "listening" /\ load.exit = 0
        /\ LoginRoutes \subseteq load.routes

\* C34: the failure of a probe sets exactly one timer of 5 seconds and
\* leaves the process alive; a probe is issued only by a timer that has run
\* out; until the first success a probe is always pending or scheduled,
\* after it none is; and if the database stays available from some time on,
\* the success is reported
C34_ProbeRetriesUntilSuccess ==
    /\ [][probe'.failed # probe.failed =>
              /\ probe'.failed = probe.failed + 1
              /\ probe'.timers = <<RetryDelaySeconds>>
              /\ probe'.queries = <<>>
              /\ probe'.alive]_vars
    /\ [][Len(probe'.queries) > Len(probe.queries) =>
              probe.timers = <<0>> /\ probe'.timers = <<>>]_vars
    /\ [](probe.alive /\ probe.reported = 0 =>
              Len(probe.queries) + Len(probe.timers) = 1)
    /\ [](probe.reported > 0 =>
              probe.reported = 1 /\ probe.queries = <<>> /\ probe.timers = <<>>)
    /\ [](~probe.alive => probe.reported = 1)
    /\ (<>[](probe.db) => <>(probe.reported = 1))

\* the connection was reported after every failure the database was let
\* to cause
C34_Witness ==
    /\ probe.failed = MaxProbeFailures
    /\ probe.reported = 1
    /\ probe.alive

====
